---- MODULE Spec2Model ----
(***************************************************************************)
(* A model of the Neovim session manager of edit-in-neovim                 *)
(* (src/src/Neovim.ts): launch (headless, terminal, tmux), the readiness   *)
(* poll, process events, close / disconnect / quit, and openFile.          *)
(*                                                                         *)
(* Strings the code inspects character by character (the listen address)   *)
(* are sequences of one-character strings; indices are 0-based as in the   *)
(* source, so lastIndexOf gives -1 when there is no match.                 *)
(***************************************************************************)
EXTENDS Integers, Sequences, FiniteSets, TLC

\* ------------------------------------------------------------------ bounds
MaxAddrLen == 4

\* --------------------------------------------------------- string helpers

\* String.prototype.lastIndexOf(c) for a one-character needle (0-based, -1: none).
LastIndexOf(s, c) ==
  LET hits == {i \in 1..Len(s) : s[i] = c}
  IN IF hits = {} THEN -1 ELSE (CHOOSE i \in hits : \A j \in hits : j <= i) - 1

\* String.prototype.startsWith(p).
StartsWith(s, p) ==
  /\ Len(p) <= Len(s)
  /\ \A i \in 1..Len(p) : s[i] = p[i]

\* String.prototype.endsWith(p).
EndsWith(s, p) ==
  /\ Len(p) <= Len(s)
  /\ \A i \in 1..Len(p) : s[Len(s) - Len(p) + i] = p[i]

\* String.prototype.includes(p).
Includes(s, p) ==
  \E k \in 0..(Len(s) - Len(p)) : \A i \in 1..Len(p) : s[k + i] = p[i]

\* String.prototype.substring(from, to), 0-based, `to` exclusive.
Substring(s, from, to) ==
  IF to <= from THEN <<>> ELSE [i \in 1..(to - from) |-> s[from + i]]

\* String.prototype.substring(from) to the end.
SubstringFrom(s, from) == Substring(s, from, Len(s))

Digits == {"0", "1", "2", "3", "4", "5", "6", "7", "8", "9"}

DigitVal(c) ==
  CASE c = "0" -> 0 [] c = "1" -> 1 [] c = "2" -> 2 [] c = "3" -> 3
    [] c = "4" -> 4 [] c = "5" -> 5 [] c = "6" -> 6 [] c = "7" -> 7
    [] c = "8" -> 8 [] c = "9" -> 9

\* The length of the longest prefix of s made of decimal digits.
DigitPrefixLen(s) ==
  LET stops == {i \in 1..Len(s) : s[i] \notin Digits}
  IN IF stops = {} THEN Len(s) ELSE (CHOOSE i \in stops : \A j \in stops : i <= j) - 1

RECURSIVE DecimalValue(_, _)
\* The value of the first n characters of s, all decimal digits.
DecimalValue(s, n) ==
  IF n = 0 THEN 0 ELSE 10 * DecimalValue(s, n - 1) + DigitVal(s[n])

\* parseInt(s) on strings without whitespace, sign or radix prefix: the value of
\* the leading decimal digits, NaN when s does not start with a digit.
ParseInt(s) ==
  LET n == DigitPrefixLen(s)
  IN IF n = 0 THEN [nan |-> TRUE, val |-> 0]
     ELSE [nan |-> FALSE, val |-> DecimalValue(s, n)]

\* /^\d+$/.test(s)
AllDigits(s) == Len(s) > 0 /\ \A i \in 1..Len(s) : s[i] \in Digits

\* --------------------------------------------------- the listen address

\* The JavaScript literal "\\\\" of attachToServer: two backslash characters.
BackslashMarker == <<"\\", "\\">>

\* attachToServer reading the address at its FIRST colon (indexOf).
AttachTargetFirstColon(listenAddr) ==
  LET colons == {i \in 1..Len(listenAddr) : listenAddr[i] = ":"}
      colonIdx == IF colons = {} THEN -1
                  ELSE (CHOOSE i \in colons : \A j \in colons : i <= j) - 1
  IN IF colonIdx > 0 /\ ~StartsWith(listenAddr, <<"/">>)
          /\ ~Includes(listenAddr, BackslashMarker)
     THEN LET host == Substring(listenAddr, 0, colonIdx)
              port == ParseInt(SubstringFrom(listenAddr, colonIdx + 1))
          IN IF port.nan
             THEN [kind |-> "invalid", host |-> <<>>, port |-> -1, path |-> <<>>]
             ELSE [kind |-> "tcp", host |-> host, port |-> port.val, path |-> <<>>]
     ELSE [kind |-> "socket", host |-> <<>>, port |-> -1, path |-> listenAddr]

\* attachToServer falling back to the socket branch when the port is no number.
AttachTargetSocketFallback(listenAddr) ==
  LET colonIdx == LastIndexOf(listenAddr, ":")
      port == ParseInt(SubstringFrom(listenAddr, colonIdx + 1))
  IN IF colonIdx > 0 /\ ~StartsWith(listenAddr, <<"/">>)
          /\ ~Includes(listenAddr, BackslashMarker) /\ ~port.nan
     THEN [kind |-> "tcp", host |-> Substring(listenAddr, 0, colonIdx),
           port |-> port.val, path |-> <<>>]
     ELSE [kind |-> "socket", host |-> <<>>, port |-> -1, path |-> listenAddr]

\* attachToServer's reading of the listen address: which connection it opens.
\*   tcp     net.createConnection({host, port})
\*   socket  attach({socket: listenAddr})
\*   invalid the "Invalid listen port" throw: the attempt fails at once
AttachTarget(listenAddr) ==
  LET colonIdx == LastIndexOf(listenAddr, ":")
  IN IF colonIdx > 0 /\ ~StartsWith(listenAddr, <<"/">>)
          /\ ~Includes(listenAddr, BackslashMarker)
     THEN LET host == Substring(listenAddr, 0, colonIdx)
              port == ParseInt(SubstringFrom(listenAddr, colonIdx + 1))
          IN IF port.nan
             THEN [kind |-> "invalid", host |-> <<>>, port |-> -1, path |-> <<>>]
             ELSE [kind |-> "tcp", host |-> host, port |-> port.val, path |-> <<>>]
     ELSE [kind |-> "socket", host |-> <<>>, port |-> -1, path |-> listenAddr]

\* spawnWithTmux's own test of the listen address (isTcpListen).
IsTcpListen(listenAddr) ==
  LET colonIdx == LastIndexOf(listenAddr, ":")
      portStr == IF colonIdx > 0 THEN SubstringFrom(listenAddr, colonIdx + 1) ELSE <<>>
  IN colonIdx > 0 /\ AllDigits(portStr) /\ ~StartsWith(listenAddr, <<"/">>)

\* The addresses the spec names.
AddrTcpDefault ==
  <<"1", "2", "7", ".", "0", ".", "0", ".", "1", ":", "2", "0", "0", "6">>
AddrSocket ==
  <<"/", "t", "m", "p", "/", "n", "v", "i", "m", ".", "s", "o", "c", "k">>
AddrBadPort == <<"h", "o", "s", "t", ":", "a", "b", "c">>

AddrAlphabet == {"/", ":", "\\", "1", "a"}

RECURSIVE SeqsUpTo(_, _)
\* All sequences over S of length at most n.
SeqsUpTo(S, n) ==
  IF n = 0 THEN {<<>>}
  ELSE LET shorter == SeqsUpTo(S, n - 1)
       IN shorter \cup {Append(s, c) : s \in {t \in shorter : Len(t) = n - 1}, c \in S}

AddrInputs ==
  SeqsUpTo(AddrAlphabet, MaxAddrLen) \cup {AddrTcpDefault, AddrSocket, AddrBadPort}

\* ------------------------------------------------------------ more bounds
MaxProcs == 1          \* children that have not yet emitted close, at once
MaxLaunches == 1       \* newInstance calls in flight at once
MaxProcsSwitch == 1    \* the same two bounds, for the behaviours in which the
MaxLaunchesSwitch == 2 \* settings change while a session is up
MaxProcsRelaunch == 2  \* children at once, when one is closed and another spawned

\* ------------------------------------------------------------------ state
VARIABLES
  settings,      \* this.settings (EditInNeovimSettings)
  nvimBinary,    \* this.nvimBinary.path ("" when none was found)
  termBinary,    \* this.termBinary ("" for undefined)
  tmuxBinary,    \* this.tmuxBinary ("" for undefined)
  platform,      \* process.platform
  startedVia,    \* this.startedVia
  process,       \* this.process: 0 for undefined, else the child's id
  instance,      \* this.instance: 0 for undefined, else the RPC handle's id
  procs,         \* the child processes spawned so far, as the OS sees them
  handles,       \* the RPC handles created so far: the state of their probe
  tmuxSessions,  \* the names of the tmux sessions that exist
  launches,      \* the newInstance calls suspended at an await
  last,          \* what the last handler step did: its effects, in order
  execs,         \* the remote-open commands whose callback is still to run
  clock,         \* Date.now(), in ms, as read by a timed waitForServerReady
  wait,          \* a timed waitForServerReady call: where it is, what it saw
  listenAddr,    \* an address handed to attachToServer on its own
  opened,        \* the connection attachToServer opened for it
  search         \* a searchForBinary call: its environment and its result

lifeVars ==
  <<settings, nvimBinary, termBinary, tmuxBinary, platform, startedVia, process,
    instance, procs, handles, tmuxSessions, launches, last>>
waitVars == <<clock, wait>>
addrVars == <<listenAddr, opened, search>>

\* The ids of children and of RPC handles. An RPC handle is referred to by
\* this.instance or by the attachToServer call that awaits its eval: there is
\* one id per launch that can be in flight, and one more.
Pids == DOMAIN procs
HandleIds == DOMAIN handles
LaunchLimit == Len(handles) - 1

Str_obsidian == <<"o", "b", "s", "i", "d", "i", "a", "n">>
Str_edit_in_neovim ==
  <<"e", "d", "i", "t", "-", "i", "n", "-", "n", "e", "o", "v", "i", "m">>

\* DEFAULT_SETTINGS, the fields the session manager reads.
DEFAULT_SETTINGS ==
  [hostMode |-> "nvim",
   listenOn |-> AddrTcpDefault,
   supportedFileTypes |-> {"txt", "md", "css", "js", "ts", "tsx", "jsx", "json"},
   tmuxSessionName |-> Str_obsidian,
   tmuxAttachOnStart |-> FALSE,
   tmuxKeepAliveOnQuit |-> FALSE]

\* String.prototype.trim() for the space character.
RECURSIVE TrimStart(_)
TrimStart(s) == IF Len(s) > 0 /\ Head(s) = " " THEN TrimStart(Tail(s)) ELSE s
RECURSIVE TrimEnd(_)
TrimEnd(s) ==
  IF Len(s) > 0 /\ s[Len(s)] = " " THEN TrimEnd(SubSeq(s, 1, Len(s) - 1)) ELSE s
Trim(s) == TrimEnd(TrimStart(s))

\* (this.settings.tmuxSessionName || "edit-in-neovim").trim()
SessionName(cfg) ==
  Trim(IF cfg.tmuxSessionName # <<>> THEN cfg.tmuxSessionName ELSE Str_edit_in_neovim)

\* ---------------------------------------------------- the object, as a value
\* The fields a handler step reads and writes, with the effects it has had so far.
Cur ==
  [startedVia |-> startedVia, process |-> process, instance |-> instance,
   procs |-> procs, handles |-> handles, sessions |-> tmuxSessions, fx |-> <<>>]

\* One effect on the outside world: a notice, a spawned process, a command.
Fx(k, a) == [k |-> k, a |-> a, n |-> <<>>]
TmuxFx(cmd, name) == [k |-> "tmux", a |-> cmd, n |-> name]
Emit(m, e) == [m EXCEPT !.fx = Append(@, e)]
Notice(m, a) == Emit(m, Fx("notice", a))

FxKinds(fx, k) == {i \in 1..Len(fx) : fx[i].k = k}
HasFx(fx, k, a) == \E i \in 1..Len(fx) : fx[i].k = k /\ fx[i].a = a

\* The first child id not yet used, 0 when the bound is reached.
NextPid(m) ==
  LET free == {p \in Pids : m.procs[p] = "unborn"}
  IN IF free = {} THEN 0 ELSE CHOOSE p \in free : \A q \in free : p <= q

\* The first RPC handle id not yet used, 0 when the bound is reached.
NextHandle(m) ==
  LET free == {h \in HandleIds : m.handles[h] = "unused"}
  IN IF free = {} THEN 0 ELSE CHOOSE h \in free : \A g \in free : h <= g

\* ------------------------------------------------- disconnect, close, quit

\* disconnect(): drop both handles, contact nothing.
Disconnect(m) == [m EXCEPT !.instance = 0, !.process = 0]

\* The tmux branch of close() keeping the handles when kill-session failed.
CloseTmuxKeepingHandlesOnFailure(m, cfg, tmuxBin, killOk) ==
  IF tmuxBin = ""
  THEN Notice(Disconnect(m), "tmux-not-found")
  ELSE LET name == SessionName(cfg)
           m1 == Emit(m, TmuxFx("kill-session", name))
       IN IF killOk /\ name \in m.sessions
          THEN Notice(Disconnect([m1 EXCEPT !.sessions = @ \ {name}]), "killed")
          ELSE Notice(m1, "kill-failed")

\* The tmux branch of close(): kill the named session, then disconnect.
\* kill-session fails when no such session exists, and may fail anyway (killOk).
CloseTmux(m, cfg, tmuxBin, killOk) ==
  IF tmuxBin = ""
  THEN Notice(Disconnect(m), "tmux-not-found")
  ELSE LET name == SessionName(cfg)
           m1 == Emit(m, TmuxFx("kill-session", name))
       IN IF killOk /\ name \in m.sessions
          THEN Notice(Disconnect([m1 EXCEPT !.sessions = @ \ {name}]), "killed")
          ELSE Notice(Disconnect(m1), "kill-failed")

\* The other branch of close(): this.process?.kill(); this.instance?.quit();
\* then clear both handles.
CloseLocal(m) ==
  LET m1 == IF m.process # 0
            THEN Emit(m, Fx("signal", "SIGTERM"))
            ELSE m
      m2 == IF m1.instance # 0 THEN Emit(m1, Fx("rpc", "quit")) ELSE m1
  IN Notice([m2 EXCEPT !.instance = 0, !.process = 0], "closed")

\* close()
Close(m, cfg, tmuxBin, killOk) ==
  IF m.startedVia = "tmux" THEN CloseTmux(m, cfg, tmuxBin, killOk) ELSE CloseLocal(m)

\* onObsidianQuit()'s test: leave the tmux session alone.
KeepAliveOnQuit(m, cfg) == m.startedVia = "tmux" /\ cfg.tmuxKeepAliveOnQuit

\* onObsidianQuit() without the keep-alive test.
OnObsidianQuitAlwaysCloses(m, cfg, tmuxBin, killOk) == Close(m, cfg, tmuxBin, killOk)

\* onObsidianQuit()
OnObsidianQuit(m, cfg, tmuxBin, killOk) ==
  IF KeepAliveOnQuit(m, cfg) THEN Disconnect(m) ELSE Close(m, cfg, tmuxBin, killOk)

\* ------------------------------------------------------- the readiness poll

NoLaunch == [mode |-> "none", pc |-> "done", h |-> 0, exists |-> FALSE]

\* attachToServer() up to its await: the handle is stored in this.instance
\* before eval("1") is awaited. An unparsable port throws inside the try: the
\* catch clears this.instance and the attempt has failed without an await.
\* Gives the object and where the caller is suspended.
AttachBegin(m, cfg, mode, exists) ==
  LET target == AttachTarget(cfg.listenOn)
      h == NextHandle(m)
  IN IF target.kind = "invalid"
     THEN [m |-> [m EXCEPT !.instance = 0],
           susp |-> [mode |-> mode, pc |-> "sleep", h |-> 0, exists |-> FALSE]]
     ELSE [m |-> Emit([m EXCEPT !.instance = h, !.handles[h] = "pending"],
                      [k |-> "attach", a |-> target.kind, n |-> cfg.listenOn]),
           susp |-> [mode |-> mode, pc |-> "eval", h |-> h, exists |-> FALSE]]

\* Whether an attempt can start within the bound on handles.
CanAttach(m, cfg) == AttachTarget(cfg.listenOn).kind = "invalid" \/ NextHandle(m) # 0

\* waitForServerReady(7000) from its call: the clock has not advanced, the loop
\* is entered and the first attempt starts.
WaitBegin(m, cfg, mode, exists) == AttachBegin(Emit(m, Fx("poll", "start")), cfg, mode, exists)

\* What each spawn function does once waitForServerReady has returned `ready`.
\* socketThere: existsSync(listenOn), read by spawnWithTmux only.
AfterWait(m, cfg, tmuxBin, mode, ready, killOk, socketThere) ==
  CASE mode = "headless" ->
         IF ready THEN Notice(m, "server-started")
         ELSE Close(Notice(m, "connect-failed"), cfg, tmuxBin, killOk)
    [] mode = "terminal" ->
         IF ready THEN Notice(m, "connected") ELSE Notice(m, "connect-failed")
    [] mode = "tmux" ->
         IF ready THEN Notice(m, "tmux-running")
         ELSE IF ~IsTcpListen(cfg.listenOn) /\ ~socketThere
              THEN Notice(m, "socket-not-created")
              ELSE Notice(m, "tmux-unreachable")

\* ------------------------------------------------------------- newInstance

\* newInstance's first test, asking for both handles to be live.
AlreadyRunningBothHandles(m, cfg) ==
  cfg.hostMode = "nvim" /\ m.process # 0 /\ m.instance # 0

\* newInstance's first test: "Instance already running".
AlreadyRunning(m, cfg) == cfg.hostMode = "nvim" /\ m.process # 0

\* newInstance's second test: no usable editor binary.
NoNvimBinary(nvimPath) == nvimPath = ""

\* The choice with a resolved terminal taking precedence over the host mode.
SelectStrategyTerminalFirst(cfg, termBin) ==
  IF termBin # "" THEN "terminal"
  ELSE IF cfg.hostMode = "tmux" THEN "tmux" ELSE "headless"

\* Which spawn function newInstance calls.
SelectStrategy(cfg, termBin) ==
  IF cfg.hostMode = "tmux" THEN "tmux"
  ELSE IF termBin = "" THEN "headless" ELSE "terminal"

\* The result of a handler step: the object, the outcome, where the call is
\* suspended (NoLaunch when it has returned), and whether the step stays within
\* the bounds on child and handle ids.
Step(m, out, susp, fits) == [m |-> m, out |-> out, susp |-> susp, fits |-> fits]
Returned(m, out) == Step(m, out, NoLaunch, TRUE)
Suspended(r, out, fits) == Step(r.m, out, r.susp, fits)

\* Entering a spawn function without recording how the session is started.
EnterLocalKeepingStartedVia(m, mode) == Emit(m, Fx("enter", mode))

\* spawnHeadless / spawnWithTerminal are entered: this.startedVia = mode is
\* the first statement of their try block, before child_process.spawn.
EnterLocal(m, mode) == Emit([m EXCEPT !.startedVia = mode], Fx("enter", mode))

\* spawnHeadless / spawnWithTerminal: startedVia is set, then the child is
\* spawned. spawnRes: "ok" (a child with a pid), "nopid" (a child object
\* without a pid), "throws" (child_process.spawn threw).
SpawnLocal(m, cfg, mode, spawnRes) ==
  LET m1 == EnterLocal(m, mode)
      pid == NextPid(m)
  IN CASE spawnRes = "throws" ->
            Returned(Notice([m1 EXCEPT !.process = 0, !.instance = 0], "spawn-error"),
                     "spawn-threw")
       [] spawnRes = "nopid" ->
            Returned([Notice(m1, "failed-to-create") EXCEPT !.process = 0], "spawn-nopid")
       [] spawnRes = "ok" ->
            Suspended(
              WaitBegin(Emit([m1 EXCEPT !.process = pid,
                                       !.procs[pid] = "running"],
                             Fx("spawn", mode)),
                        cfg, mode, FALSE),
              "polling", pid # 0 /\ CanAttach(m, cfg))

\* The refusal whenever the port is taken, a session of the name or not.
PortConflictIgnoringSession(exists, portRes) == portRes = "inuse"

\* spawnWithTmux's refusal: the port is taken and no session of the name exists.
PortConflict(exists, portRes) == portRes = "inuse" /\ ~exists

\* spawnTerminalToAttachTmux(sessionName). termOk: child_process.spawn returned.
SpawnTerminalToAttachTmux(m, termBin, name, termOk) ==
  IF termBin = "" THEN Notice(m, "no-terminal")
  ELSE IF termOk THEN Emit(m, Fx("spawn", "attach-terminal"))
  ELSE Notice(m, "attach-terminal-failed")

\* spawnWithTmux from the port lookup on, running new-session without regard
\* to what has-session reported.
TmuxAfterPortAlwaysCreates(m, cfg, termBin, tmuxBin, exists, portRes, newSessionOk, termOk) ==
  LET name == SessionName(cfg)
      m0 == Emit(Emit(m, Fx("session-exists", IF exists THEN "yes" ELSE "no")),
                 Fx("port-lookup", portRes))
      created == Emit(m0, TmuxFx("new-session", name))
      m1 == [created EXCEPT !.sessions = @ \cup {name}]
      m2 == IF cfg.tmuxAttachOnStart
            THEN SpawnTerminalToAttachTmux(m1, termBin, name, termOk) ELSE m1
  IN IF portRes = "throws"
     THEN Returned(Emit(m0, Fx("rejected", "isPortInUse")), "port-lookup-threw")
     ELSE IF PortConflict(exists, portRes)
     THEN Returned(Notice(m0, "port-conflict"), "port-conflict")
     ELSE IF ~newSessionOk
     THEN Returned(Notice(created, "tmux-start-failed"), "new-session-failed")
     ELSE Suspended(WaitBegin(m2, cfg, "tmux", exists), "polling", CanAttach(m, cfg))

\* spawnWithTmux from the port lookup on, giving up when the attach terminal
\* could not be opened.
TmuxAfterPortAttachFatal(m, cfg, termBin, tmuxBin, exists, portRes, newSessionOk, termOk) ==
  LET name == SessionName(cfg)
      m0 == Emit(Emit(m, Fx("session-exists", IF exists THEN "yes" ELSE "no")),
                 Fx("port-lookup", portRes))
      created == Emit(m0, TmuxFx("new-session", name))
      m1 == IF exists THEN m0 ELSE [created EXCEPT !.sessions = @ \cup {name}]
      m2 == IF cfg.tmuxAttachOnStart
            THEN SpawnTerminalToAttachTmux(m1, termBin, name, termOk) ELSE m1
  IN IF portRes = "throws"
     THEN Returned(Emit(m0, Fx("rejected", "isPortInUse")), "port-lookup-threw")
     ELSE IF PortConflict(exists, portRes)
     THEN Returned(Notice(m0, "port-conflict"), "port-conflict")
     ELSE IF ~exists /\ (~newSessionOk \/ name \in m.sessions)
     THEN Returned(Notice(created, "tmux-start-failed"), "new-session-failed")
     ELSE IF cfg.tmuxAttachOnStart /\ (termBin = "" \/ ~termOk)
     THEN Returned(m2, "attach-terminal-failed")
     ELSE Suspended(WaitBegin(m2, cfg, "tmux", exists), "polling", CanAttach(m, cfg))

\* spawnWithTmux from the port lookup on. portRes: "skipped" (the address is
\* not TCP, isPortInUse is not called), "inuse", "free", or "throws"
\* (isPortInUse rejected: nothing in spawnWithTmux or newInstance catches it).
\* new-session fails when the session exists by now, and may fail anyway.
\* The step records what it was told: the has-session answer, the lookup's;
\* "rejected" is the promise of newInstance rejecting with the lookup's error.
TmuxAfterPort(m, cfg, termBin, tmuxBin, exists, portRes, newSessionOk, termOk) ==
  LET name == SessionName(cfg)
      m0 == Emit(Emit(m, Fx("session-exists", IF exists THEN "yes" ELSE "no")),
                 Fx("port-lookup", portRes))
      created == Emit(m0, TmuxFx("new-session", name))
      m1 == IF exists THEN m0 ELSE [created EXCEPT !.sessions = @ \cup {name}]
      m2 == IF cfg.tmuxAttachOnStart
            THEN SpawnTerminalToAttachTmux(m1, termBin, name, termOk) ELSE m1
  IN IF portRes = "throws"
     THEN Returned(Emit(m0, Fx("rejected", "isPortInUse")), "port-lookup-threw")
     ELSE IF PortConflict(exists, portRes)
     THEN Returned(Notice(m0, "port-conflict"), "port-conflict")
     ELSE IF ~exists /\ (~newSessionOk \/ name \in m.sessions)
     THEN Returned(Notice(created, "tmux-start-failed"), "new-session-failed")
     ELSE Suspended(WaitBegin(m2, cfg, "tmux", exists), "polling", CanAttach(m, cfg))

\* spawnWithTmux recording startedVia on entry, ahead of its two refusals.
SpawnWithTmuxMarkingFirst(m, cfg, termBin, tmuxBin, plat, newSessionOk, termOk) ==
  LET name == SessionName(cfg)
      m0 == Emit([m EXCEPT !.startedVia = "tmux"], Fx("enter", "tmux"))
      m1 == Emit(m0, TmuxFx("has-session", name))
      exists == name \in m.sessions
  IN IF plat = "win32"
     THEN Returned(Notice(m0, "tmux-unsupported"), "unsupported-platform")
     ELSE IF tmuxBin = ""
     THEN Returned(Notice(m0, "tmux-not-found"), "tmux-not-found")
     ELSE IF IsTcpListen(cfg.listenOn)
     THEN Step(m1, "port-lookup",
               [mode |-> "tmux", pc |-> "port", h |-> 0, exists |-> exists], TRUE)
     ELSE TmuxAfterPort(m1, cfg, termBin, tmuxBin, exists, "skipped", newSessionOk, termOk)

\* spawnWithTmux up to the port lookup.
SpawnWithTmux(m, cfg, termBin, tmuxBin, plat, newSessionOk, termOk) ==
  LET name == SessionName(cfg)
      m0 == Emit(m, Fx("enter", "tmux"))
      m1 == Emit([m0 EXCEPT !.startedVia = "tmux"], TmuxFx("has-session", name))
      exists == name \in m.sessions
  IN IF plat = "win32"
     THEN Returned(Notice(m0, "tmux-unsupported"), "unsupported-platform")
     ELSE IF tmuxBin = ""
     THEN Returned(Notice(m0, "tmux-not-found"), "tmux-not-found")
     ELSE IF IsTcpListen(cfg.listenOn)
     THEN Step(m1, "port-lookup",
               [mode |-> "tmux", pc |-> "port", h |-> 0, exists |-> exists], TRUE)
     ELSE TmuxAfterPort(m1, cfg, termBin, tmuxBin, exists, "skipped", newSessionOk, termOk)

\* newInstance(adapter), up to its first suspension.
NewInstanceStep(m, cfg, nvimPath, termBin, tmuxBin, plat, spawnRes, newSessionOk, termOk) ==
  IF AlreadyRunning(m, cfg) THEN Returned(Notice(m, "already-running"), "already-running")
  ELSE IF NoNvimBinary(nvimPath) THEN Returned(Notice(m, "no-nvim-binary"), "no-nvim-binary")
  ELSE LET strategy == SelectStrategy(cfg, termBin)
       IN IF strategy = "tmux"
          THEN SpawnWithTmux(m, cfg, termBin, tmuxBin, plat, newSessionOk, termOk)
          ELSE SpawnLocal(m, cfg, strategy, spawnRes)

\* ------------------------------------------------------------------ actions

\* The listen addresses and session names the lifecycle is checked with.
ListenAddrs == {AddrTcpDefault, AddrSocket, AddrBadPort}
SessionNameSettings == {Str_obsidian, <<>>}

NoWait ==
  [pc |-> "idle", start |-> 0, timeoutMs |-> 0, attempts |-> 0, lastStart |-> 0,
   lastAttachMs |-> 0, lastSleepMs |-> 0, result |-> "none"]
NoTarget == [kind |-> "none", host |-> <<>>, port |-> -1, path |-> <<>>]

NoLast == [op |-> "init", out |-> "", mode |-> "none", fx |-> <<>>]
\* No searchForBinary call is being followed.
NoSearch == [windows |-> FALSE, env |-> {}, path |-> <<>>, exists |-> {},
             executable |-> {}, done |-> FALSE,
             result |-> [found |-> FALSE, dir |-> "", file |-> ""]]

\* The state after construction: no handles, startedVia unknown; the settings
\* are those loaded from the host, the binaries those the constructor resolved.
InitOf(nProcs, nLaunches) ==
  /\ settings \in {[DEFAULT_SETTINGS EXCEPT !.hostMode = hm, !.listenOn = a,
                                            !.tmuxSessionName = sn,
                                            !.tmuxAttachOnStart = at,
                                            !.tmuxKeepAliveOnQuit = ka] :
                     hm \in {"nvim", "tmux"}, a \in ListenAddrs,
                     sn \in SessionNameSettings, at \in BOOLEAN, ka \in BOOLEAN}
  /\ nvimBinary \in {"", "nvim"}
  /\ termBinary \in {"", "alacritty"}
  /\ tmuxBinary \in {"", "tmux"}
  /\ platform \in {"linux", "win32"}
  /\ startedVia = "unknown"
  /\ process = 0
  /\ instance = 0
  /\ procs = [p \in 1..nProcs |-> "unborn"]
  /\ handles = [h \in 1..(nLaunches + 1) |-> "unused"]
  /\ tmuxSessions \in SUBSET {SessionName(settings)}
  /\ launches = <<>>
  /\ last = NoLast
  /\ execs = <<>>
  /\ clock = 0
  /\ wait = NoWait
  /\ listenAddr = <<>>
  /\ opened = NoTarget
  /\ search = NoSearch

\* With the settings fixed, the tmux settings are only read when hostMode is
\* "tmux": they vary there, and are the defaults under "nvim".
Init ==
  /\ InitOf(MaxProcs, MaxLaunches)
  /\ settings.hostMode = "nvim" =>
       /\ settings.tmuxSessionName = DEFAULT_SETTINGS.tmuxSessionName
       /\ settings.tmuxAttachOnStart = DEFAULT_SETTINGS.tmuxAttachOnStart
       /\ settings.tmuxKeepAliveOnQuit = DEFAULT_SETTINGS.tmuxKeepAliveOnQuit
       /\ tmuxBinary = "tmux" /\ platform = "linux" /\ tmuxSessions = {}

\* The fixed settings of Init, with room for a second child: one that was
\* closed and has not exited yet, and the one spawned after it.
InitRelaunch ==
  /\ InitOf(MaxProcsRelaunch, MaxLaunches)
  /\ settings.hostMode = "nvim" =>
       /\ settings.tmuxSessionName = DEFAULT_SETTINGS.tmuxSessionName
       /\ settings.tmuxAttachOnStart = DEFAULT_SETTINGS.tmuxAttachOnStart
       /\ settings.tmuxKeepAliveOnQuit = DEFAULT_SETTINGS.tmuxKeepAliveOnQuit
       /\ tmuxBinary = "tmux" /\ platform = "linux" /\ tmuxSessions = {}

\* The same, with room for overlapping launches and for a second child.
InitSwitch ==
  /\ InitOf(MaxProcsSwitch, MaxLaunchesSwitch)
  /\ nvimBinary = "nvim"
  /\ tmuxBinary = "tmux" \/ platform = "linux"
  /\ settings.listenOn = AddrTcpDefault
  /\ settings.tmuxSessionName = Str_obsidian
  /\ ~settings.tmuxAttachOnStart

\* One launch at a time, with the editor and tmux found and no terminal; the
\* listen address is the one setting that changes afterwards.
InitListen ==
  /\ InitOf(MaxProcs, MaxLaunches)
  /\ nvimBinary = "nvim" /\ termBinary = "" /\ tmuxBinary = "tmux"
  /\ platform = "linux"
  /\ settings.tmuxSessionName = DEFAULT_SETTINGS.tmuxSessionName
  /\ settings.tmuxAttachOnStart = DEFAULT_SETTINGS.tmuxAttachOnStart
  /\ settings.tmuxKeepAliveOnQuit = DEFAULT_SETTINGS.tmuxKeepAliveOnQuit
  /\ tmuxSessions = {}

\* Ids are names for live things only: a child that has emitted close emits
\* nothing more, and a handle whose probe has settled and that this.instance no
\* longer holds is unreachable; both ids are free again.
Forget(m) ==
  [m EXCEPT !.procs = [p \in Pids |-> IF m.procs[p] = "closed" THEN "unborn"
                                      ELSE m.procs[p]],
            !.handles = [h \in HandleIds |-> IF m.handles[h] \in {"ok", "failed"}
                                                /\ m.instance # h
                                             THEN "unused" ELSE m.handles[h]]]

\* Store the object a step produced, and what the step did.
Commit(m, op, out, mode) ==
  /\ startedVia' = m.startedVia
  /\ process' = m.process
  /\ instance' = m.instance
  /\ procs' = Forget(m).procs
  /\ handles' = Forget(m).handles
  /\ tmuxSessions' = m.sessions
  /\ last' = [op |-> op, out |-> out, mode |-> mode, fx |-> m.fx]
  /\ UNCHANGED <<execs, waitVars, addrVars>>

RemoveAt(q, i) == [j \in 1..(Len(q) - 1) |-> IF j < i THEN q[j] ELSE q[j + 1]]

\* The host has not quit: onObsidianQuit is its last call into the object.
Running == last.op # "onObsidianQuit"

\* The outcomes the environment can give a step; a step that does not ask is
\* given one.
Outcomes(asked, S, dflt) == IF asked THEN S ELSE {dflt}
AsksSpawn == ~AlreadyRunning(Cur, settings) /\ ~NoNvimBinary(nvimBinary)
               /\ settings.hostMode # "tmux"
AsksTmux == settings.hostMode = "tmux" /\ platform # "win32" /\ tmuxBinary # ""
AsksAttachTerminal == settings.tmuxAttachOnStart /\ termBinary # ""
AsksKill(mode) == mode = "headless" /\ startedVia = "tmux" /\ tmuxBinary # ""
AsksSocket(mode) == mode = "tmux" /\ ~IsTcpListen(settings.listenOn)

\* A suspended newInstance call as `launches` keeps it: where it is suspended,
\* and the listen address its editor was started with (the --listen argument
\* of the spawn or of new-session; the object keeps no copy of it).
Launch(susp, addr) ==
  [mode |-> susp.mode, pc |-> susp.pc, h |-> susp.h, exists |-> susp.exists,
   addr |-> addr]

\* A newInstance call, run to its first suspension or to its return.
NewInstance ==
  /\ Running
  /\ \E spawnRes \in Outcomes(AsksSpawn, {"ok", "nopid", "throws"}, "ok"),
        newSessionOk \in Outcomes(AsksTmux, BOOLEAN, TRUE),
        termOk \in Outcomes(AsksTmux /\ AsksAttachTerminal, BOOLEAN, TRUE) :
       LET r == NewInstanceStep(Cur, settings, nvimBinary, termBinary, tmuxBinary,
                                platform, spawnRes, newSessionOk, termOk)
       IN /\ r.fits
          /\ r.susp.pc = "done" \/ Len(launches) < LaunchLimit
          /\ Commit(r.m, "newInstance", r.out, r.susp.mode)
          /\ launches' = IF r.susp.pc = "done" THEN launches
                         ELSE Append(launches, Launch(r.susp, settings.listenOn))
  /\ UNCHANGED <<settings, nvimBinary, termBinary, tmuxBinary, platform>>

\* isPortInUse settles for a suspended spawnWithTmux.
PortLookupDone ==
  /\ Running
  /\ \E i \in 1..Len(launches) :
       /\ launches[i].pc = "port"
       /\ \E portRes \in {"inuse", "free", "throws"}, newSessionOk \in BOOLEAN,
             termOk \in Outcomes(AsksAttachTerminal, BOOLEAN, TRUE) :
            LET r == TmuxAfterPort(Cur, settings, termBinary, tmuxBinary,
                                   launches[i].exists, portRes, newSessionOk, termOk)
            IN /\ r.fits
               /\ Commit(r.m, "portLookupDone", r.out, "tmux")
               /\ launches' = IF r.susp.pc = "done" THEN RemoveAt(launches, i)
                              ELSE [launches EXCEPT
                                      ![i] = Launch(r.susp, settings.listenOn)]
  /\ UNCHANGED <<settings, nvimBinary, termBinary, tmuxBinary, platform>>

\* The catch of attachToServer telling the user of each failed attempt.
AttachFailedWithNotice(m, h, transport) ==
  Notice(Emit([m EXCEPT !.instance = 0, !.handles[h] = "failed"],
              Fx("connection", transport)),
         "connect-failed")

\* The catch of attachToServer: this.instance = undefined, nothing else. The
\* connection the attempt opened is not closed by the code: it is closed when
\* the failure was the transport's own (refused, no such socket: "closed") and
\* still open when eval was rejected over a working transport ("open").
AttachFailed(m, h, transport) ==
  Emit([m EXCEPT !.instance = 0, !.handles[h] = "failed"], Fx("connection", transport))

\* eval("1") settles for a suspended attachToServer: on success attachToServer
\* and waitForServerReady return true; on failure the catch clears
\* this.instance and the poll sleeps for 200 ms.
EvalDone ==
  /\ Running
  /\ \E i \in 1..Len(launches) :
       /\ launches[i].pc = "eval"
       /\ \E ok \in BOOLEAN, transport \in {"closed", "open"} :
            LET l == launches[i]
                m == Cur
            IN IF ok
               THEN /\ Commit(AfterWait([m EXCEPT !.handles[l.h] = "ok"], settings,
                                        tmuxBinary, l.mode, TRUE, TRUE, TRUE),
                              "evalDone", "ready", l.mode)
                    /\ launches' = RemoveAt(launches, i)
               ELSE /\ Commit(AttachFailed(m, l.h, transport),
                              "evalDone", "attach-failed", l.mode)
                    /\ launches' = [launches EXCEPT ![i].pc = "sleep", ![i].h = 0]
  /\ UNCHANGED <<settings, nvimBinary, termBinary, tmuxBinary, platform>>

\* The 200 ms timer of a suspended waitForServerReady fires: the loop test reads
\* the clock; either the timeout has elapsed (it returns false) or the next
\* attempt starts.
Wake ==
  /\ Running
  /\ \E i \in 1..Len(launches) :
       /\ launches[i].pc = "sleep"
       /\ \E expired \in BOOLEAN,
             killOk \in Outcomes(AsksKill(launches[i].mode), BOOLEAN, TRUE),
             socketThere \in Outcomes(AsksSocket(launches[i].mode), BOOLEAN, TRUE) :
            LET l == launches[i]
                r == AttachBegin(Cur, settings, l.mode, l.exists)
            IN IF expired
               THEN /\ Commit(AfterWait(Cur, settings, tmuxBinary, l.mode, FALSE,
                                        killOk, socketThere),
                              "wake", "timeout", l.mode)
                    /\ launches' = RemoveAt(launches, i)
               ELSE /\ CanAttach(Cur, settings)
                    /\ Commit(r.m, "wake", "retry", l.mode)
                    /\ launches' = [launches EXCEPT ![i] = Launch(r.susp, l.addr)]
  /\ UNCHANGED <<settings, nvimBinary, termBinary, tmuxBinary, platform>>

\* close(), called by the host (the close command, a settings reload).
CloseCall ==
  /\ Running
  /\ \E killOk \in Outcomes(startedVia = "tmux" /\ tmuxBinary # "", BOOLEAN, TRUE) :
       Commit(Close(Cur, settings, tmuxBinary, killOk), "close", "", "none")
  /\ UNCHANGED <<settings, nvimBinary, termBinary, tmuxBinary, platform, launches>>

\* onObsidianQuit(), the host's quit hook.
QuitCall ==
  /\ Running
  /\ \E killOk \in Outcomes(startedVia = "tmux" /\ tmuxBinary # "", BOOLEAN, TRUE) :
       Commit(OnObsidianQuit(Cur, settings, tmuxBinary, killOk), "onObsidianQuit",
              IF KeepAliveOnQuit(Cur, settings) THEN "kept-alive" ELSE "closed", "none")
  /\ UNCHANGED <<settings, nvimBinary, termBinary, tmuxBinary, platform, launches>>

\* Handlers that drop the process handle and keep the RPC handle.
ProcessEventHandlerProcessOnly(m, ev) ==
  LET m1 == IF ev = "error" THEN Notice(m, "nvim-error") ELSE m
  IN [m1 EXCEPT !.process = 0]

\* The handlers registerProcessEvents installs: each clears both handles.
ProcessEventHandler(m, ev) ==
  LET m1 == IF ev = "error" THEN Notice(m, "nvim-error") ELSE m
  IN [m1 EXCEPT !.process = 0, !.instance = 0]

\* A child with handlers emits an event: error or disconnect while it runs,
\* exit when it ends, close after exit.
ProcessEvent ==
  /\ Running
  /\ \E p \in Pids, ev \in {"error", "disconnect", "exit", "close"} :
       /\ procs[p] = (IF ev = "close" THEN "exited" ELSE "running")
       /\ LET m == Cur
              st == CASE ev = "exit" -> "exited" [] ev = "close" -> "closed"
                      [] OTHER -> m.procs[p]
              emitted == [k |-> "event", a |-> ev, n |-> p]
          IN Commit(ProcessEventHandler(Emit([m EXCEPT !.procs[p] = st], emitted), ev),
                    "processEvent", ev, "none")
  /\ UNCHANGED <<settings, nvimBinary, termBinary, tmuxBinary, platform, launches>>

\* The settings tab changes the host mode.
SetHostMode ==
  /\ Running
  /\ \E hm \in {"nvim", "tmux"} :
       /\ hm # settings.hostMode
       /\ settings' = [settings EXCEPT !.hostMode = hm]
  /\ last' = [op |-> "setHostMode", out |-> "", mode |-> "none", fx |-> <<>>]
  /\ UNCHANGED <<nvimBinary, termBinary, tmuxBinary, platform, startedVia, process,
                 instance, procs, handles, tmuxSessions, launches, execs, waitVars,
                 addrVars>>

\* The settings tab changes the listen address.
SetListenOn ==
  /\ Running
  /\ \E a \in ListenAddrs :
       /\ a # settings.listenOn
       /\ settings' = [settings EXCEPT !.listenOn = a]
  /\ last' = [op |-> "setListenOn", out |-> "", mode |-> "none", fx |-> <<>>]
  /\ UNCHANGED <<nvimBinary, termBinary, tmuxBinary, platform, startedVia, process,
                 instance, procs, handles, tmuxSessions, launches, execs, waitVars,
                 addrVars>>

\* ------------------------------------------------ attachToServer on its own

\* attachToServer opens the connection its reading of the address selects.
AttachConnect ==
  /\ opened = NoTarget
  /\ opened' = AttachTarget(listenAddr)
  /\ UNCHANGED <<lifeVars, execs, waitVars, listenAddr, search>>

\* A freshly constructed session manager with the default settings.
InitFresh ==
  /\ settings = DEFAULT_SETTINGS
  /\ nvimBinary = "nvim" /\ termBinary = "" /\ tmuxBinary = "" /\ platform = "linux"
  /\ startedVia = "unknown" /\ process = 0 /\ instance = 0
  /\ procs = [p \in 1..MaxProcs |-> "unborn"]
  /\ handles = [h \in 1..(MaxLaunches + 1) |-> "unused"]
  /\ tmuxSessions = {} /\ launches = <<>> /\ last = NoLast

\* attachToServer applied to each address of AddrInputs.
InitAddr ==
  /\ InitFresh
  /\ execs = <<>> /\ clock = 0 /\ wait = NoWait
  /\ listenAddr \in AddrInputs
  /\ opened = NoTarget
  /\ search = NoSearch

NextAddr == AttachConnect

\* ------------------------------------------- waitForServerReady, with a clock

PollIntervalMs == 200      \* setTimeout(r, 200)
DefaultTimeoutMs == 5000   \* timeoutMs = 5000
LaunchTimeoutMs == 7000    \* waitForServerReady(7000)

\* The timeouts a timed call is given, and how long one attach attempt (connect
\* plus eval) can take to settle.
TimeoutsMs == {0, 300, DefaultTimeoutMs, LaunchTimeoutMs}
AttachDurationsMs == {0, 50, 250}
\* setTimeout fires no earlier than asked: how late it can be.
TimerSlackMs == {0, 10}

\* The loop test of waitForServerReady with <= for <.
LoopContinuesInclusive(now, start, timeoutMs) == now - start <= timeoutMs

\* The loop test of waitForServerReady.
LoopContinues(now, start, timeoutMs) == now - start < timeoutMs

\* waitForServerReady(timeoutMs) is called: start = Date.now().
WaitCall ==
  /\ wait.pc = "idle"
  /\ \E t \in TimeoutsMs :
       wait' = [NoWait EXCEPT !.pc = "test", !.start = clock, !.timeoutMs = t]
  /\ UNCHANGED <<lifeVars, execs, addrVars, clock>>

\* The loop test: the next attempt starts, or the call returns false.
WaitTest ==
  /\ wait.pc = "test"
  /\ wait' = IF LoopContinues(clock, wait.start, wait.timeoutMs)
              THEN [wait EXCEPT !.pc = "attach", !.attempts = @ + 1, !.lastStart = clock]
              ELSE [wait EXCEPT !.pc = "done", !.result = "false"]
  /\ UNCHANGED <<lifeVars, execs, addrVars, clock>>

\* await attachToServer(): the attempt settles after d ms; it never throws.
WaitAttachSettles ==
  /\ wait.pc = "attach"
  /\ \E d \in AttachDurationsMs, ok \in BOOLEAN :
       /\ clock' = clock + d
       /\ wait' = IF ok THEN [wait EXCEPT !.pc = "done", !.result = "true", !.lastAttachMs = d]
                   ELSE [wait EXCEPT !.pc = "sleep", !.lastAttachMs = d]
  /\ UNCHANGED <<lifeVars, execs, addrVars>>

\* await new Promise((r) => setTimeout(r, 200)).
WaitTimer ==
  /\ wait.pc = "sleep"
  /\ \E late \in TimerSlackMs :
       /\ clock' = clock + PollIntervalMs + late
       /\ wait' = [wait EXCEPT !.pc = "test", !.lastSleepMs = PollIntervalMs + late]
  /\ UNCHANGED <<lifeVars, execs, addrVars>>

InitWait ==
  /\ InitFresh
  /\ execs = <<>> /\ clock = 0 /\ wait = NoWait
  /\ listenAddr = <<>> /\ opened = NoTarget /\ search = NoSearch

NextWait ==
  \/ WaitCall
  \/ WaitTest
  \/ WaitAttachSettles
  \/ WaitTimer

\* ------------------------------------------------------------- openFile

MaxExecs == 2   \* remote-open commands whose callback has not run yet

\* A TFile by the dot-separated parts of its name ("a.excalidraw.md" is
\* <<"a", "excalidraw", "md">>); null is NoFile.
NoFile == [null |-> TRUE, parts |-> <<>>]
File(parts) == [null |-> FALSE, parts |-> parts]
Files ==
  {File(<<"note", "md">>), File(<<"draw", "excalidraw", "md">>),
   File(<<"pic", "png">>), File(<<"a", "txt">>), File(<<"README">>),
   File(<<"x", "excalidraw">>), File(<<"excalidraw", "md">>)}

\* The settings of supportedFileTypes openFile is run under; the last is what
\* the settings tab stores for an emptied field ("".split(" ")).
SupportedSets ==
  {DEFAULT_SETTINGS.supportedFileTypes, {"txt", "md"}, {"excalidraw"},
   {"excalidraw", "txt"}, {""}}

\* TFile.extension: what follows the last dot of the name, "" without a dot.
Extension(file) ==
  IF Len(file.parts) >= 2 THEN file.parts[Len(file.parts)] ELSE ""

\* file.path.endsWith(".excalidraw.md")
EndsWithExcalidrawMd(file) ==
  LET n == Len(file.parts)
  IN n >= 3 /\ file.parts[n - 1] = "excalidraw" /\ file.parts[n] = "md"

\* isSupported with the excalidraw clause left out.
IsSupportedByExtensionOnly(cfg, file) == Extension(file) \in cfg.supportedFileTypes

\* isSupported, as openFile computes it.
IsSupported(cfg, file) ==
  LET isExcalidrawMd == Extension(file) = "md" /\ EndsWithExcalidrawMd(file)
  IN \/ Extension(file) \in cfg.supportedFileTypes
     \/ isExcalidrawMd /\ "excalidraw" \in cfg.supportedFileTypes

\* openFile(file): the early returns, then execFile(nvim, ["--server",
\* listenOn, "--remote", absolutePath], callback). `threw` is execFile failing
\* synchronously, which the catch turns into a notice.
OpenFileStep(m, cfg, nvimPath, file, threw) ==
  LET asked == Emit(m, [k |-> "file", a |-> file, n |-> <<>>])
      exec == [k |-> "exec", a |-> file, n |-> cfg.listenOn]
  IN IF file.null THEN [m |-> asked, out |-> "no-file"]
     ELSE IF nvimPath = "" THEN [m |-> asked, out |-> "no-binary"]
     ELSE IF ~IsSupported(cfg, file) THEN [m |-> asked, out |-> "unsupported"]
     ELSE IF threw
          THEN [m |-> Notice(Emit(asked, exec), "failed-to-run"), out |-> "exec-threw"]
          ELSE [m |-> Emit(asked, exec), out |-> "issued"]

OpenFile ==
  /\ Len(execs) < MaxExecs
  /\ \E file \in Files \cup {NoFile} :
     \E threw \in Outcomes(/\ ~file.null /\ nvimBinary # ""
                            /\ IsSupported(settings, file), BOOLEAN, FALSE) :
       LET r == OpenFileStep(Cur, settings, nvimBinary, file, threw)
       IN /\ last' = [op |-> "openFile", out |-> r.out, mode |-> "none", fx |-> r.m.fx]
          /\ execs' = IF r.out = "issued"
                       THEN Append(execs, [file |-> file, server |-> settings.listenOn])
                       ELSE execs
  /\ UNCHANGED <<settings, nvimBinary, termBinary, tmuxBinary, platform, startedVia,
                 process, instance, procs, handles, tmuxSessions, launches,
                 waitVars, addrVars>>

\* What execFile hands its callback. A command that could not be started
\* (ENOENT, EACCES) has written nothing; one that ran and failed has an exit
\* code and any stderr. stderr is the set of the substrings the callback looks
\* for that it contains ("path" is absolutePath, "text" anything else).
StderrMarkers ==
  {"ECONNREFUSED", "Connection refused", "No such file or directory", "path", "text"}
ExecResults ==
  {[code |-> "none", stderr |-> e] : e \in {{}, {"text"}}}
    \cup {[code |-> c, stderr |-> {}] : c \in {"ENOENT", "EACCES"}}
    \cup {[code |-> "exit", stderr |-> e] : e \in SUBSET StderrMarkers}

\* The callback's notice with the file-not-found test made before the
\* connection-refused test.
FailureNoticeFileFirst(res) ==
  IF res.code = "ENOENT" THEN "executable-not-found"
  ELSE IF /\ res.stderr # {} /\ "No such file or directory" \in res.stderr
          /\ "path" \in res.stderr
       THEN "file-not-found"
  ELSE IF /\ res.stderr # {}
          /\ ("ECONNREFUSED" \in res.stderr \/ "Connection refused" \in res.stderr)
       THEN "server-unreachable"
  ELSE IF res.stderr # {} THEN "stderr-first-line"
  ELSE "error-message"

\* The notice the execFile callback shows for a failed command.
FailureNotice(res) ==
  IF res.code = "ENOENT" THEN "executable-not-found"
  ELSE IF /\ res.stderr # {}
          /\ ("ECONNREFUSED" \in res.stderr \/ "Connection refused" \in res.stderr)
       THEN "server-unreachable"
  ELSE IF /\ res.stderr # {} /\ "No such file or directory" \in res.stderr
          /\ "path" \in res.stderr
       THEN "file-not-found"
  ELSE IF res.stderr # {} THEN "stderr-first-line"
  ELSE "error-message"

\* The callback of a remote-open command runs.
ExecCallback ==
  \E i \in 1..Len(execs), res \in ExecResults :
    LET got == [k |-> "result", a |-> res.code, n |-> res.stderr]
        fx == IF res.code = "none" THEN <<got>>
              ELSE <<got, [k |-> "notice", a |-> FailureNotice(res), n |-> settings.listenOn]>>
    IN /\ execs' = RemoveAt(execs, i)
       /\ last' = [op |-> "execCallback", out |-> IF res.code = "none" THEN "ok" ELSE "failed",
                   mode |-> "none", fx |-> fx]
       /\ UNCHANGED <<settings, nvimBinary, termBinary, tmuxBinary, platform, startedVia,
                      process, instance, procs, handles, tmuxSessions, launches,
                      waitVars, addrVars>>

InitOpen ==
  /\ \E types \in SupportedSets :
       settings = [DEFAULT_SETTINGS EXCEPT !.supportedFileTypes = types]
  /\ nvimBinary \in {"", "nvim"}
  /\ termBinary = "" /\ tmuxBinary = "" /\ platform = "linux"
  /\ startedVia = "unknown" /\ process = 0 /\ instance = 0
  /\ procs = [p \in 1..MaxProcs |-> "unborn"]
  /\ handles = [h \in 1..(MaxLaunches + 1) |-> "unused"]
  /\ tmuxSessions = {} /\ launches = <<>> /\ last = NoLast
  /\ execs = <<>> /\ clock = 0 /\ wait = NoWait
  /\ listenAddr = <<>> /\ opened = NoTarget /\ search = NoSearch

NextOpen == OpenFile \/ ExecCallback

\* -------------------------------------------------------- searchForBinary

MaxPathDirs == 2   \* entries of PATH
MaxExisting == 2   \* candidate files that exist on disk

\* The directories PATH is made of; two of them differ in case only. Names are
\* written as path.normalize leaves them.
PathDirChoices == {"/opt/nv", "/OPT/NV", "/usr/bin"}

\* The environment variables searchForBinary reads besides PATH.
EnvVars(windows) ==
  IF windows THEN {"USERPROFILE", "LOCALAPPDATA", "PROGRAMFILES"} ELSE {"HOME"}

\* normalizePath(path): path.normalize, in lower case on Windows.
NormalizePath(windows, p) == IF windows /\ p = "/OPT/NV" THEN "/opt/nv" ELSE p

\* The directories added after those of PATH, in the order they are added
\* (those built from a variable are normalised, so lower case on Windows).
ExtraDirs(windows, env) ==
  IF windows
  THEN (IF "USERPROFILE" \in env THEN <<"userprofile/scoop/shims">> ELSE <<>>)
       \o <<"c:/programdata/scoop/shims">>
       \o (IF "LOCALAPPDATA" \in env
           THEN <<"localappdata/microsoft/windowsapps",
                  "localappdata/microsoft/winget/packages">>
           ELSE <<>>)
       \o (IF "PROGRAMFILES" \in env
           THEN <<"programfiles/winget/packages",
                  "programfiles (x86)/winget/packages">>
           ELSE <<>>)
  ELSE <<"/usr/local/bin", "/usr/bin", "/opt/homebrew/bin",
         "/home/linuxbrew/.linuxbrew/bin">>
       \o (IF "HOME" \in env THEN <<"home/bin", "home/.linuxbrew/bin">> ELSE <<>>)

RECURSIVE InsertionOrder(_)
\* The iteration order of a Set the elements of s were added to in turn: each
\* element once, at the place of its first occurrence.
InsertionOrder(s) ==
  IF s = <<>> THEN <<>>
  ELSE LET front == InsertionOrder(SubSeq(s, 1, Len(s) - 1))
           x == s[Len(s)]
       IN IF \E i \in 1..Len(front) : front[i] = x THEN front ELSE Append(front, x)

\* [...paths]: the directories searchForBinary scans, in order.
SearchDirs(windows, env, path) ==
  InsertionOrder([i \in 1..Len(path) |-> NormalizePath(windows, path[i])]
                 \o ExtraDirs(windows, env))

NotFound == [found |-> FALSE, dir |-> "", file |-> ""]

RECURSIVE ScanSkippingUnusable(_, _, _, _, _)
\* The loop going on to the next candidate when one is not executable.
ScanSkippingUnusable(dirs, i, file, exists, executable) ==
  IF i > Len(dirs) THEN NotFound
  ELSE IF dirs[i] \in exists /\ dirs[i] \in executable
       THEN [found |-> TRUE, dir |-> dirs[i], file |-> file]
       ELSE ScanSkippingUnusable(dirs, i + 1, file, exists, executable)

RECURSIVE Scan(_, _, _, _, _)
\* The loop over allPaths from its i-th candidate: skip a candidate that does
\* not exist; return the first that does when accessSync(X_OK) passes, and
\* undefined from the catch when it throws.
Scan(dirs, i, file, exists, executable) ==
  IF i > Len(dirs) THEN NotFound
  ELSE IF dirs[i] \notin exists THEN Scan(dirs, i + 1, file, exists, executable)
  ELSE IF dirs[i] \in executable THEN [found |-> TRUE, dir |-> dirs[i], file |-> file]
  ELSE NotFound

\* searchForBinary(name). exists / executable: the directories whose candidate
\* file exists, and passes the X_OK test.
SearchForBinary(windows, env, path, exists, executable) ==
  Scan(SearchDirs(windows, env, path), 1,
       IF windows THEN "name.exe" ELSE "name", exists, executable)

\* Every directory a candidate can be in.
AllDirs(windows) ==
  {NormalizePath(windows, d) : d \in PathDirChoices}
    \cup {ExtraDirs(windows, EnvVars(windows))[i] :
            i \in 1..Len(ExtraDirs(windows, EnvVars(windows)))}

\* One searchForBinary call on each environment and file system in the bounds.
InitSearch ==
  /\ InitFresh
  /\ execs = <<>> /\ clock = 0 /\ wait = NoWait
  /\ listenAddr = <<>> /\ opened = NoTarget
  /\ \E w \in BOOLEAN :
     \E env \in SUBSET EnvVars(w), path \in SeqsUpTo(PathDirChoices, MaxPathDirs) :
     \E exists \in {E \in SUBSET AllDirs(w) : Cardinality(E) <= MaxExisting} :
     \E executable \in SUBSET exists :
       search = [windows |-> w, env |-> env, path |-> path, exists |-> exists,
                 executable |-> executable, done |-> FALSE, result |-> NotFound]

\* The call runs to its return.
SearchCall ==
  /\ ~search.done
  /\ search' = [search EXCEPT !.done = TRUE, !.result =
                  SearchForBinary(search.windows, search.env, search.path,
                                  search.exists, search.executable)]
  /\ UNCHANGED <<lifeVars, execs, waitVars, listenAddr, opened>>

NextSearch == SearchCall

\* The session manager with its settings as loaded.
Next ==
  \/ NewInstance
  \/ PortLookupDone
  \/ EvalDone
  \/ Wake
  \/ CloseCall
  \/ QuitCall
  \/ ProcessEvent

\* The session manager while the listen address is edited and files are opened.
NextListen ==
  \/ Next
  \/ SetListenOn
  \/ OpenFile

\* The same, with the settings tab in use while sessions come and go.
NextSwitch ==
  \/ Next
  \/ SetHostMode

vars ==
  <<settings, nvimBinary, termBinary, tmuxBinary, platform, startedVia, process,
    instance, procs, handles, tmuxSessions, launches, last, execs, clock, wait,
    listenAddr, opened, search>>

Spec == Init /\ [][Next]_vars

SpecSwitch == InitSwitch /\ [][NextSwitch]_vars

\* The session manager with a closed child still to exit while the next runs.
SpecRelaunch == InitRelaunch /\ [][Next]_vars

SpecListen == InitListen /\ [][NextListen]_vars

\* One timed waitForServerReady call.
SpecWait == InitWait /\ [][NextWait]_vars

\* openFile and the callbacks of its commands, on a new session manager.
SpecOpen == InitOpen /\ [][NextOpen]_vars

\* searchForBinary on each environment of InitSearch.
SpecSearch == InitSearch /\ [][NextSearch]_vars

\* attachToServer on each address of AddrInputs.
SpecAddr == InitAddr /\ [][NextAddr]_vars

\* ---------------------------------------------------------------- C1

\* C1: a newInstance call made while hostMode is "nvim" and this.process is
\* set is refused with the "Instance already running" notice: it enters no
\* spawn function, spawns nothing, starts no poll and no attach attempt, and
\* process, instance and startedVia keep their values.
C1_RefusedWhileProcessLive ==
  [][(last'.op = "newInstance" /\ settings.hostMode = "nvim" /\ process # 0) =>
       /\ last'.out = "already-running"
       /\ last'.fx = <<Fx("notice", "already-running")>>
       /\ process' = process /\ instance' = instance /\ startedVia' = startedVia
       /\ procs' = procs /\ launches' = launches
       /\ tmuxSessions' = tmuxSessions]_vars

\* A launch was refused while the child of an earlier one is live and its
\* RPC handle is gone.
C1_Witness ==
  /\ last.op = "newInstance" /\ last.out = "already-running"
  /\ process # 0 /\ instance = 0
  /\ startedVia \in {"headless", "terminal"}

\* ---------------------------------------------------------------- C2

\* C2 as stated: after close() has returned, startedVia is "unknown" and both
\* the process handle and the RPC handle are empty.
C2_CloseResetsStartedVia ==
  last.op = "close" => (startedVia = "unknown" /\ process = 0 /\ instance = 0)

\* ---------------------------------------------------------------- C3

\* C3: onObsidianQuit with startedVia = "tmux" and tmuxKeepAliveOnQuit set
\* runs no tmux command, signals no process and sends no RPC; it clears
\* this.process and this.instance and changes nothing else.
C3_QuitKeepsTmuxSession ==
  [][(/\ last'.op = "onObsidianQuit"
      /\ startedVia = "tmux" /\ settings.tmuxKeepAliveOnQuit) =>
       /\ last'.fx = <<>>
       /\ process' = 0 /\ instance' = 0
       /\ tmuxSessions' = tmuxSessions /\ procs' = procs
       /\ startedVia' = startedVia /\ launches' = launches]_vars

\* The host quit with keep-alive set after a tmux launch; the session is
\* still there.
C3_Witness ==
  /\ last.op = "onObsidianQuit" /\ last.out = "kept-alive"
  /\ startedVia = "tmux" /\ settings.tmuxKeepAliveOnQuit
  /\ SessionName(settings) \in tmuxSessions
  /\ instance = 0 /\ process = 0

\* ---------------------------------------------------------------- C4

\* The spawn functions the last step entered.
EnteredByLast == {i \in 1..Len(last.fx) : last.fx[i].k = "enter"}

\* C4: a newInstance call that is not refused enters exactly one spawn
\* function: spawnWithTmux whenever hostMode is "tmux", with or without a
\* terminal binary; otherwise spawnHeadless when no terminal binary resolved;
\* otherwise spawnWithTerminal. A refused call enters none.
C4_StrategyFromConfiguration ==
  last.op = "newInstance" =>
    IF last.out \in {"already-running", "no-nvim-binary"}
    THEN EnteredByLast = {}
    ELSE /\ Cardinality(EnteredByLast) = 1
         /\ \A i \in EnteredByLast :
              /\ settings.hostMode = "tmux" => last.fx[i].a = "tmux"
              /\ (settings.hostMode # "tmux" /\ termBinary = "") => last.fx[i].a = "headless"
              /\ (settings.hostMode # "tmux" /\ termBinary # "") => last.fx[i].a = "terminal"

\* spawnWithTmux was entered although a terminal binary had resolved.
C4_Witness ==
  /\ last.op = "newInstance"
  /\ settings.hostMode = "tmux" /\ termBinary # ""
  /\ HasFx(last.fx, "enter", "tmux")

\* ---------------------------------------------------------------- C5

\* The last step is spawnWithTmux past its has-session call and port lookup.
TmuxPastLookup == FxKinds(last.fx, "session-exists") # {}

\* C5: past the platform and tmux-binary tests, spawnWithTmux refuses with the
\* address-in-use notice exactly when the listen address is TCP, the port is
\* in use and has-session found no session of the configured name; a refusal
\* runs no new-session and starts no poll. When has-session found the session
\* it runs no new-session and starts the poll, port in use or not.
C5_PortConflictOnlyWithoutSession ==
  TmuxPastLookup =>
    LET exists == HasFx(last.fx, "session-exists", "yes")
        tcp == \E i \in 2..(Len(settings.listenOn) - 1) :
                 /\ settings.listenOn[i] = ":"
                 /\ \A j \in (i + 1)..Len(settings.listenOn) : settings.listenOn[j] \in Digits
                 /\ settings.listenOn[1] # "/"
        inuse == HasFx(last.fx, "port-lookup", "inuse")
        refused == HasFx(last.fx, "notice", "port-conflict")
        created == \E i \in FxKinds(last.fx, "tmux") : last.fx[i].a = "new-session"
        polled == FxKinds(last.fx, "poll") # {}
    IN /\ refused <=> (tcp /\ inuse /\ ~exists)
       /\ refused => (~created /\ ~polled /\ last.out = "port-conflict")
       /\ (exists /\ ~HasFx(last.fx, "port-lookup", "throws")) =>
            (~refused /\ ~created /\ polled)

\* spawnWithTmux refused: the port was in use and there was no session.
C5_Witness ==
  /\ last.op = "portLookupDone" /\ last.out = "port-conflict"
  /\ HasFx(last.fx, "session-exists", "no")
  /\ HasFx(last.fx, "port-lookup", "inuse")
  /\ tmuxSessions = {}

\* ---------------------------------------------------------------- C10

\* The position (1-based) of the last colon of the address, 0 when none.
LastColonPos ==
  IF \E i \in 1..Len(listenAddr) : listenAddr[i] = ":"
  THEN CHOOSE i \in 1..Len(listenAddr) :
         /\ listenAddr[i] = ":"
         /\ \A j \in (i + 1)..Len(listenAddr) : listenAddr[j] # ":"
  ELSE 0

\* The address has a colon after position 0, does not start with "/", holds no
\* two consecutive backslashes, and a digit follows its last colon.
LooksLikeHostPort ==
  /\ LastColonPos > 1
  /\ listenAddr[1] # "/"
  /\ \A i \in 1..(Len(listenAddr) - 1) : ~(listenAddr[i] = "\\" /\ listenAddr[i + 1] = "\\")
  /\ LastColonPos < Len(listenAddr)
  /\ listenAddr[LastColonPos + 1] \in Digits

\* C10: attachToServer opens a TCP connection, to the host before the last
\* colon and the integer port after it, for an address with a colon after
\* position 0 that does not start with "/", has no backslash marker and has an
\* integer after the last colon; it opens a socket at the address itself when
\* the address starts with "/".  "127.0.0.1:2006" gives host 127.0.0.1 and
\* port 2006, "/tmp/nvim.sock" a socket.
C10_AddressClassification ==
  opened # NoTarget =>
    /\ LooksLikeHostPort =>
          /\ opened.kind = "tcp"
          /\ opened.host = SubSeq(listenAddr, 1, LastColonPos - 1)
          /\ opened.port >= 0
          /\ opened.port = DecimalValue(SubSeq(listenAddr, LastColonPos + 1, Len(listenAddr)),
                                        DigitPrefixLen(SubSeq(listenAddr, LastColonPos + 1,
                                                              Len(listenAddr))))
    /\ (Len(listenAddr) > 0 /\ listenAddr[1] = "/") =>
          opened.kind = "socket" /\ opened.path = listenAddr
    /\ listenAddr = AddrTcpDefault =>
          /\ opened.kind = "tcp"
          /\ opened.host = <<"1", "2", "7", ".", "0", ".", "0", ".", "1">>
          /\ opened.port = 2006
    /\ listenAddr = AddrSocket => opened.kind = "socket"

\* A host:port address with two colons has been read as TCP.
C10_Witness ==
  /\ opened.kind = "tcp"
  /\ LooksLikeHostPort
  /\ Cardinality({i \in 1..Len(listenAddr) : listenAddr[i] = ":"}) = 2

\* ---------------------------------------------------------------- C6

\* C6 as stated: a waitForServerReady(timeoutMs) whose attach attempts all fail
\* has returned false no later than timeoutMs plus one 200 ms poll interval
\* after the call.
C6_ReturnsWithinTimeoutPlusInterval ==
  (wait.pc = "done" /\ wait.result = "false") =>
    clock - wait.start <= wait.timeoutMs + PollIntervalMs

\* C6, amended: waitForServerReady(timeoutMs) starts no attach attempt once
\* timeoutMs has elapsed and makes at most one attempt per 200 ms of timeoutMs,
\* so it terminates; when every attempt fails it returns false right after the
\* sleep that follows the last attempt, that is before timeoutMs plus the
\* duration of that attempt plus the duration of that sleep; its only results
\* are true and false.
C6_WaitTerminatesAfterLastAttempt ==
  /\ wait.pc = "attach" => wait.lastStart - wait.start < wait.timeoutMs
  /\ wait.attempts > 0 => (wait.attempts - 1) * PollIntervalMs < wait.timeoutMs
  /\ wait.pc = "done" <=> wait.result \in {"true", "false"}
  /\ (wait.pc = "done" /\ wait.result = "false") =>
        IF wait.attempts = 0 THEN clock = wait.start
        ELSE /\ clock = wait.lastStart + wait.lastAttachMs + wait.lastSleepMs
             /\ clock - wait.start < wait.timeoutMs + wait.lastAttachMs + wait.lastSleepMs

\* A timed-out poll returned false later than timeoutMs + 200 ms.
C6_Witness ==
  /\ wait.pc = "done" /\ wait.result = "false"
  /\ wait.attempts > 1
  /\ clock - wait.start > wait.timeoutMs + PollIntervalMs

\* ---------------------------------------------------------------- C7

\* The remote-open commands the last openFile call issued.
IssuedByLast == {i \in 1..Len(last.fx) : last.fx[i].k = "exec"}

\* C7: openFile issues no remote-open command when the file is null, when the
\* editor binary path is empty, or when the file's extension is not in
\* supportedFileTypes (a name ending in .excalidraw.md counts as supported
\* when "excalidraw" is in the set); otherwise it issues one command, for
\* that file, to the configured server.
C7_OpenFileGuards ==
  last.op = "openFile" =>
    LET file == last.fx[1].a
        n == Len(file.parts)
        ext == IF n >= 2 THEN file.parts[n] ELSE ""
        excalidraw == /\ n >= 3 /\ SubSeq(file.parts, n - 1, n) = <<"excalidraw", "md">>
                      /\ "excalidraw" \in settings.supportedFileTypes
    IN IF file.null \/ nvimBinary = "" \/ ~(ext \in settings.supportedFileTypes \/ excalidraw)
       THEN IssuedByLast = {}
       ELSE /\ Cardinality(IssuedByLast) = 1
            /\ \A i \in IssuedByLast :
                 last.fx[i].a = file /\ last.fx[i].n = settings.listenOn

\* A .excalidraw.md file was opened with "md" not among the supported types.
C7_Witness ==
  /\ last.op = "openFile" /\ last.out = "issued"
  /\ "md" \notin settings.supportedFileTypes
  /\ Len(execs) > 0
  /\ execs[Len(execs)].file = File(<<"draw", "excalidraw", "md">>)

\* ---------------------------------------------------------------- C8

\* C8 as stated: openFile issues a remote-open command only when both the
\* process handle and the RPC handle are live or a check of the configured
\* listen port found a listener.
C8_CommandOnlyWithEvidence ==
  (last.op = "openFile" /\ IssuedByLast # {}) =>
    \/ process # 0 /\ instance # 0
    \/ HasFx(last.fx, "port-lookup", "inuse")

\* ---------------------------------------------------------------- C9

\* C9: whenever a remote-open command fails with stderr containing
\* ECONNREFUSED, the notice is the one saying the server at the configured
\* listen address could not be reached, whatever the exit status and whatever
\* else stderr contains.
C9_RefusedMeansUnreachableNotice ==
  (/\ last.op = "execCallback" /\ last.out = "failed"
   /\ "ECONNREFUSED" \in last.fx[1].n) =>
    /\ Len(last.fx) = 2
    /\ last.fx[2].k = "notice"
    /\ last.fx[2].a = "server-unreachable"
    /\ last.fx[2].n = settings.listenOn

\* A failed command whose stderr holds ECONNREFUSED and also the
\* file-not-found text with the path got the unreachable-server notice.
C9_Witness ==
  /\ last.op = "execCallback" /\ last.out = "failed"
  /\ {"ECONNREFUSED", "No such file or directory", "path"} \subseteq last.fx[1].n
  /\ last.fx[2].a = "server-unreachable"

\* ---------------------------------------------------------------- C11

\* C11 as stated: with the default tmuxSessionName setting, every tmux command
\* the session manager runs (has-session, new-session, kill-session) names the
\* session "edit-in-neovim".
C11_DefaultSessionNameIsEditInNeovim ==
  settings.tmuxSessionName = DEFAULT_SETTINGS.tmuxSessionName =>
    \A i \in FxKinds(last.fx, "tmux") : last.fx[i].n = Str_edit_in_neovim

\* ---------------------------------------------------------------- C12

\* C12 as stated: when the readiness poll of a launch that spawned a child
\* times out, a headless launch signals the process this.process holds and
\* leaves both handles empty; a terminal launch signals nothing, keeps
\* this.process and only shows the failure notice.
C12_TimeoutClosesHeadlessOnly ==
  [][(last'.op = "wake" /\ last'.out = "timeout") =>
       /\ (last'.mode = "headless" /\ process # 0) =>
            /\ HasFx(last'.fx, "signal", "SIGTERM")
            /\ process' = 0 /\ instance' = 0
       /\ last'.mode = "terminal" =>
            /\ last'.fx = <<Fx("notice", "connect-failed")>>
            /\ process' = process]_vars

\* ---------------------------------------------------------------- C13

\* C13 as stated: no failure of a collaborator (spawn, port lookup, tmux
\* command, attach or eval, remote-open command) leaves newInstance, openFile,
\* close or onObsidianQuit as an exception or a rejected promise; a step in which
\* a spawn, a port lookup, a tmux command or the remote-open command failed
\* shows a notice.
C13_NoFailureEscapes ==
  /\ FxKinds(last.fx, "rejected") = {}
  /\ last.out \in {"spawn-threw", "spawn-nopid", "port-lookup-threw",
                   "new-session-failed", "exec-threw"} =>
       FxKinds(last.fx, "notice") # {}

\* ---------------------------------------------------------------- C14

\* C14 as stated: in every reachable state, whatever launches, closes, process
\* events and hostMode changes led to it, this.process is empty whenever
\* startedVia is "tmux".
C14_NoProcessUnderTmux == startedVia = "tmux" => process = 0

\* ---------------------------------------------------------------- C15

\* C15 as stated: in every state another operation can observe (every state
\* between two handler steps), this.instance is set only to a handle whose
\* probe, connect plus eval("1"), has already succeeded: never to one whose
\* probe is pending or has failed.
C15_InstanceOnlyAfterProbe == instance # 0 => handles[instance] = "ok"

\* ---------------------------------------------------------------- C16

\* C16: in every reachable state, if this.process is set then startedVia is
\* not "unknown".
C16_ProcessImpliesStartedVia == process # 0 => startedVia # "unknown"

\* A terminal launch timed out: its child is still tracked, nothing attached.
C16_Witness ==
  /\ last.op = "wake" /\ last.out = "timeout" /\ last.mode = "terminal"
  /\ process # 0 /\ instance = 0
  /\ startedVia = "terminal"

\* ---------------------------------------------------------------- C17

\* The last step is the return of a headless or terminal launch: the spawn
\* failed, or its readiness poll returned.
LocalLaunchCompleted ==
  \/ last.op = "newInstance" /\ last.out \in {"spawn-threw", "spawn-nopid"}
  \/ /\ last.mode \in {"headless", "terminal"}
     /\ \/ last.op = "evalDone" /\ last.out = "ready"
        \/ last.op = "wake" /\ last.out = "timeout"

\* C17 as stated: when a headless or terminal launch has completed, this.process
\* and this.instance are both set or both empty.
C17_AttachedOrTornDown ==
  LocalLaunchCompleted => (process # 0 <=> instance # 0)

\* ---------------------------------------------------------------- C18

\* C18 as stated: startedVia changes only in a launch that succeeds: a step
\* that changes it is one in which the spawn or the session start succeeded
\* and the poll began, or in which the poll found the server ready; a launch
\* that fails leaves it as it was.
C18_StartedViaOnlyOnSuccess ==
  [][startedVia' # startedVia => last'.out \in {"polling", "ready"}]_vars

\* ---------------------------------------------------------------- C19

\* C19 as stated: when newInstance returns after a spawn failure in headless or
\* terminal mode (child_process.spawn threw, or gave a child without a pid),
\* this.process and this.instance are both empty, whatever they were before.
C19_HandlesEmptyAfterSpawnFailure ==
  (last.op = "newInstance" /\ last.out \in {"spawn-threw", "spawn-nopid"}) =>
    (process = 0 /\ instance = 0)

\* ---------------------------------------------------------------- C20

\* C20: each of the error, close, disconnect and exit events of a spawned child
\* leaves this.process and this.instance empty, and the process handle never
\* refers to a child that has exited.
C20_ProcessEventsClearHandles ==
  /\ (last.op = "processEvent"
        /\ last.out \in {"error", "close", "disconnect", "exit"}) =>
       (process = 0 /\ instance = 0)
  /\ process # 0 => procs[process] = "running"

\* The child of a spawn that succeeded has just emitted exit.
C20_Witness ==
  /\ last.op = "processEvent" /\ last.out = "exit"
  /\ \E p \in Pids : procs[p] = "exited"
  /\ process = 0 /\ instance = 0

\* ---------------------------------------------------------------- C21

\* C21 as stated: a newInstance call made while a session is active (the
\* process handle is set, or the RPC handle is set and its probe succeeded) is
\* refused in every host mode: it spawns nothing, runs no tmux command and
\* starts no readiness poll.
C21_RefusedWhileSessionActive ==
  [][(/\ last'.op = "newInstance"
      /\ \/ process # 0
         \/ instance # 0 /\ handles[instance] = "ok") =>
       /\ last'.out = "already-running"
       /\ FxKinds(last'.fx, "spawn") = {}
       /\ FxKinds(last'.fx, "tmux") = {}
       /\ FxKinds(last'.fx, "poll") = {}
       /\ launches' = launches]_vars

\* ---------------------------------------------------------------- C22

\* The refusals newInstance makes before any work: no editor binary, or, in
\* tmux mode, the win32 platform or no tmux binary.
RefusedEarly ==
  \/ nvimBinary = ""
  \/ settings.hostMode = "tmux" /\ (platform = "win32" \/ tmuxBinary = "")

TmuxCommands(cmd) == {i \in FxKinds(last.fx, "tmux") : last.fx[i].a = cmd}

\* C23: every spawnWithTmux call that is not refused runs has-session once, on
\* the sessions as they are at that moment; it runs new-session, once and for
\* the configured name, exactly when has-session reported the session absent,
\* and never when has-session reported it as existing.
C23_NewSessionIffAbsent ==
  /\ (/\ last.op = "newInstance" /\ HasFx(last.fx, "enter", "tmux")
      /\ last.out \notin {"unsupported-platform", "tmux-not-found"}) =>
       Cardinality(TmuxCommands("has-session")) = 1
  /\ (last.op = "newInstance" /\ last.out = "port-lookup") =>
       launches[Len(launches)].exists = (SessionName(settings) \in tmuxSessions)
  /\ TmuxCommands("new-session") # {} => HasFx(last.fx, "session-exists", "no")
  /\ (/\ FxKinds(last.fx, "session-exists") # {}
      /\ last.out \notin {"port-conflict", "port-lookup-threw"}) =>
       IF HasFx(last.fx, "session-exists", "no")
       THEN /\ Cardinality(TmuxCommands("new-session")) = 1
            /\ \A i \in TmuxCommands("new-session") :
                 last.fx[i].n = SessionName(settings)
       ELSE TmuxCommands("new-session") = {}

\* After the port lookup of a call whose has-session found no session,
\* new-session was run and the poll started.
C23_Witness ==
  /\ last.op = "portLookupDone" /\ last.out = "polling"
  /\ HasFx(last.fx, "session-exists", "no")
  /\ HasFx(last.fx, "port-lookup", "inuse") = FALSE
  /\ TmuxCommands("new-session") # {}
  /\ SessionName(settings) \in tmuxSessions

\* ---------------------------------------------------------------- C24

\* The last step took spawnWithTmux past its refusals with the session there:
\* it existed, or new-session created it.
TmuxSessionEnsured ==
  /\ FxKinds(last.fx, "session-exists") # {}
  /\ last.out \notin {"port-conflict", "port-lookup-threw", "new-session-failed"}

\* C24: once spawnWithTmux is past its refusals and the session exists or was
\* created, the call goes on to waitForServerReady, once, after any attempt to
\* open the attach terminal: for a created and for a reused session, and also
\* when no terminal is configured or opening the terminal failed.
C24_TmuxEndsInOnePoll ==
  TmuxSessionEnsured =>
    /\ last.out = "polling"
    /\ Cardinality(FxKinds(last.fx, "poll")) = 1
    /\ \A i \in 1..Len(last.fx) :
         (\/ last.fx[i].k = "tmux"
          \/ last.fx[i].k = "spawn"
          \/ last.fx[i].k = "notice") => \A j \in FxKinds(last.fx, "poll") : i < j
    /\ \E i \in 1..Len(launches) : launches[i].mode = "tmux" /\ launches[i].pc # "port"

\* A reused session, the attach terminal asked for and not opened, the poll
\* started all the same.
C24_Witness ==
  /\ TmuxSessionEnsured
  /\ HasFx(last.fx, "session-exists", "yes")
  /\ \/ HasFx(last.fx, "notice", "attach-terminal-failed")
     \/ HasFx(last.fx, "notice", "no-terminal")
  /\ HasFx(last.fx, "poll", "start")

\* ---------------------------------------------------------------- C25

\* close() on this object had it been started via tmux with no tmux binary
\* resolved: the branch of close() a launch cannot lead to, since a tmux
\* launch is refused without the binary.
CloseWithoutTmuxBinary == Close([Cur EXCEPT !.startedVia = "tmux"], settings, "", TRUE)

\* C25: close() in tmux state with the tmux binary present runs kill-session
\* once, for the configured session name, and whether that succeeded or failed
\* it clears both handles and shows one notice; with no tmux binary it runs no
\* command and clears both handles.
C25_CloseInTmuxState ==
  /\ (last.op = "close" /\ startedVia = "tmux" /\ tmuxBinary # "") =>
       /\ Cardinality(FxKinds(last.fx, "tmux")) = 1
       /\ \A i \in FxKinds(last.fx, "tmux") :
            last.fx[i].a = "kill-session" /\ last.fx[i].n = SessionName(settings)
       /\ Cardinality(FxKinds(last.fx, "notice")) = 1
       /\ HasFx(last.fx, "notice", "killed") \/ HasFx(last.fx, "notice", "kill-failed")
       /\ HasFx(last.fx, "notice", "killed") => SessionName(settings) \notin tmuxSessions
       /\ FxKinds(last.fx, "signal") = {} /\ FxKinds(last.fx, "rpc") = {}
       /\ process = 0 /\ instance = 0
  /\ (last.op = "close" /\ startedVia = "tmux" /\ tmuxBinary = "") =>
       /\ FxKinds(last.fx, "tmux") = {}
       /\ process = 0 /\ instance = 0
  /\ /\ FxKinds(CloseWithoutTmuxBinary.fx, "tmux") = {}
     /\ CloseWithoutTmuxBinary.process = 0 /\ CloseWithoutTmuxBinary.instance = 0
     /\ CloseWithoutTmuxBinary.sessions = tmuxSessions

\* close() in tmux state whose kill-session failed: the handles are empty and
\* the failure notice was shown.
C25_Witness ==
  /\ last.op = "close" /\ startedVia = "tmux" /\ tmuxBinary # ""
  /\ HasFx(last.fx, "notice", "kill-failed")
  /\ SessionName(settings) \in tmuxSessions
  /\ process = 0 /\ instance = 0

\* ---------------------------------------------------------------- C26

\* C26 as stated: when waitForServerReady returns true (an attach attempt's
\* eval succeeded and the poll ended), this.instance is the handle of that
\* attempt, its probe completed, and no attempt of that poll is still to come.
C26_ReadyHoldsTheAttachedHandle ==
  (last.op = "evalDone" /\ last.out = "ready") =>
    /\ instance # 0
    /\ handles[instance] = "ok"

\* ---------------------------------------------------------------- C27

\* C27 as stated: when an attach attempt has failed, this.instance is empty
\* and the connection that attempt opened is closed, before the next attempt.
C27_FailedAttemptLeavesNothingOpen ==
  (last.op = "evalDone" /\ last.out = "attach-failed") =>
    /\ instance = 0
    /\ ~HasFx(last.fx, "connection", "open")

\* ---------------------------------------------------------------- C28

\* The address has a colon and what follows its last colon does not start
\* with a digit, so it is no integer ("host:abc").
NoIntegerAfterLastColon ==
  /\ LastColonPos > 0
  /\ LastColonPos = Len(listenAddr) \/ listenAddr[LastColonPos + 1] \notin Digits

TakesTcpBranch ==
  /\ LastColonPos > 1
  /\ listenAddr[1] # "/"
  /\ \A i \in 1..(Len(listenAddr) - 1) : ~(listenAddr[i] = "\\" /\ listenAddr[i + 1] = "\\")

C29_SessionKeepsItsLaunchAddress ==
  \A i \in 1..Len(launches) :
    launches[i].pc # "port" =>
      \A j \in 1..Len(last.fx) :
        last.fx[j].k \in {"attach", "exec"} => last.fx[j].n = launches[i].addr

\* ---------------------------------------------------------------- C30

\* The notices among the effects of the last step, in order.
NoticesOfLast == SelectSeq(last.fx, LAMBDA e : e.k = "notice")

PollStepFailedAttempt ==
  \/ last.op = "evalDone" /\ last.out = "attach-failed"
  \/ last.op = "wake" /\ last.out = "retry"
PollStepEnded ==
  \/ last.op = "evalDone" /\ last.out = "ready"
  \/ last.op = "wake" /\ last.out = "timeout"

\* C30 as stated: a failed attach attempt of a launch shows no notice, and the
\* step that ends the poll shows exactly one notice, that of the outcome.
C30_OneOutcomeNotice ==
  /\ PollStepFailedAttempt => Len(NoticesOfLast) = 0
  /\ PollStepEnded => Len(NoticesOfLast) = 1

\* The notice close() shows, whichever branch it takes.
CloseNotices == {"closed", "killed", "kill-failed", "tmux-not-found"}

\* C30, amended: a failed attach attempt shows no notice; the step that ends
\* the poll shows one outcome notice (connected, or failed to connect), and a
\* headless launch that timed out shows after it the notice of the close() it
\* runs, and nothing more.
C30_OutcomeNoticeThenClose ==
  /\ PollStepFailedAttempt => Len(NoticesOfLast) = 0
  /\ (last.op = "evalDone" /\ last.out = "ready") =>
       /\ Len(NoticesOfLast) = 1
       /\ NoticesOfLast[1].a =
            (CASE last.mode = "headless" -> "server-started"
               [] last.mode = "terminal" -> "connected"
               [] last.mode = "tmux" -> "tmux-running")
  /\ (last.op = "wake" /\ last.out = "timeout") =>
       CASE last.mode = "headless" ->
              /\ Len(NoticesOfLast) = 2
              /\ NoticesOfLast[1].a = "connect-failed"
              /\ NoticesOfLast[2].a \in CloseNotices
         [] last.mode = "terminal" ->
              /\ Len(NoticesOfLast) = 1
              /\ NoticesOfLast[1].a = "connect-failed"
         [] last.mode = "tmux" ->
              /\ Len(NoticesOfLast) = 1
              /\ NoticesOfLast[1].a \in {"socket-not-created", "tmux-unreachable"}

\* A headless launch has timed out: the failure notice, then close()'s.
C30_Witness ==
  /\ last.op = "wake" /\ last.out = "timeout" /\ last.mode = "headless"
  /\ Len(NoticesOfLast) = 2
  /\ NoticesOfLast[2].a = "closed"
  /\ process = 0 /\ instance = 0

\* ---------------------------------------------------------------- C31

\* The directories as they are added to the set: those of PATH, normalised,
\* then the platform's own.
DirsAsAdded ==
  [i \in 1..Len(search.path) |-> NormalizePath(search.windows, search.path[i])]
    \o ExtraDirs(search.windows, search.env)

\* The candidates of the call, and the places of those that exist.
DirsScanned == SearchDirs(search.windows, search.env, search.path)
ExistingAt == {i \in 1..Len(DirsScanned) : DirsScanned[i] \in search.exists}
FirstExisting == CHOOSE i \in ExistingAt : \A j \in ExistingAt : i <= j

\* C31: searchForBinary scans every directory added once, in the order of
\* first addition; it returns the first candidate that exists when that one is
\* executable, not-found when that one is not executable (later candidates
\* are not tried), and not-found when no candidate exists.
C31_FirstExistingDecides ==
  search.done =>
    LET dirs == DirsScanned
        added == DirsAsAdded
        existing == {i \in 1..Len(dirs) : dirs[i] \in search.exists}
    IN /\ \A k \in 1..Len(added) : \E i \in 1..Len(dirs) : dirs[i] = added[k]
       /\ \A i \in 1..Len(dirs) :
            \E k \in 1..Len(added) :
              /\ added[k] = dirs[i]
              /\ \A j \in 1..(k - 1) : added[j] # dirs[i]
              /\ i > 1 => \E j \in 1..(k - 1) : added[j] = dirs[i - 1]
       /\ IF existing = {} THEN ~search.result.found
          ELSE LET first == CHOOSE i \in existing : \A j \in existing : i <= j
               IN IF dirs[first] \in search.executable
                  THEN search.result.found /\ search.result.dir = dirs[first]
                  ELSE ~search.result.found

\* The first existing candidate was not executable, a later one was, and the
\* call returned not-found.
C31_Witness ==
  /\ search.done
  /\ ExistingAt # {}
  /\ DirsScanned[FirstExisting] \notin search.executable
  /\ \E j \in ExistingAt : j > FirstExisting /\ DirsScanned[j] \in search.executable
  /\ ~search.result.found

\* ---------------------------------------------------------------- C32

\* C32 as stated: when close() or onObsidianQuit() clears a process handle
\* that tracks a child still running, that child has been sent the terminate
\* signal.
C32_LiveProcessSignalledBeforeDrop ==
  [][(/\ last'.op \in {"close", "onObsidianQuit"}
      /\ process # 0 /\ procs[process] = "running"
      /\ process' = 0) =>
       HasFx(last'.fx, "signal", "SIGTERM")]_vars

\* ---------------------------------------------------------------- C33

\* The child whose event the last step handled, 0 when it handled none.
EventSource(fx) ==
  IF FxKinds(fx, "event") = {} THEN 0
  ELSE fx[CHOOSE i \in FxKinds(fx, "event") : TRUE].n

\* C33 as stated: an error, disconnect, exit or close event of a child that
\* is not the tracked one leaves the process handle and the RPC handle of the
\* session that tracks another child as they were.
C33_StaleEventLeavesNewSession ==
  [][(/\ last'.op = "processEvent"
      /\ process # 0
      /\ EventSource(last'.fx) # process) =>
       (process' = process /\ instance' = instance)]_vars

\* ---------------------------------------------------------------- C34

\* The last step was close(), or the disconnect() of a kept-alive quit.
JustClosed == last.op \in {"close", "onObsidianQuit"}

\* C34 as stated, for the step that follows close() or disconnect(): when that
\* step belongs to a readiness poll that was running during the call (its
\* timer fires, its eval settles), and so is no new launch, the RPC handle
\* that the call emptied is still empty after it.
C34_PollAfterCloseLeavesHandleEmpty ==
  [][(/\ JustClosed
      /\ instance = 0
      /\ last'.op \in {"wake", "evalDone"}) =>
       instance' = 0]_vars

\* ---------------------------------------------------------------- C35

\* this.instance holds a handle whose attach attempt has succeeded.
LiveHandle == instance # 0 /\ handles[instance] = "ok"

\* C35 as stated: while the RPC handle is one whose attach attempt succeeded
\* (the poll that set it has returned), the failure of an attach attempt of
\* another readiness poll leaves that handle in place.
C35_FailedAttemptKeepsLiveHandle ==
  [][(/\ LiveHandle
      /\ last'.op = "evalDone"
      /\ last'.out = "attach-failed") =>
       instance' = instance]_vars

\* ---------------------------------------------------------------- C36

\* C36 as stated: in every reachable state where the session was started
\* headless or in a terminal, the RPC handle is set only if the process handle
\* is set.
C36_RpcHandleOnlyWithProcess ==
  startedVia \in {"headless", "terminal"} => (instance # 0 => process # 0)

====
